---------------------------- MODULE Spec2Model ----------------------------
(***************************************************************************)
(* Model of src/main.py: one run of main(), which fetches the front feed   *)
(* (fetch_front_articles), formats the report (format_email_body) and      *)
(* mails it (send_email).                                                   *)
(*                                                                         *)
(* JSON values are records tagged by k: "absent" (a key that is not        *)
(* there), "null", "int", "str", "obj", "arr".  A string is a sequence of  *)
(* tokens (atomic substrings); the line break is the token NL.             *)
(***************************************************************************)
EXTENDS Integers, Sequences, FiniteSets, TLC

VARIABLES
    pc,              \* position of main() / send_email()
    response,        \* what requests.get(feed_url) yields in this run
    articles,        \* main: articles = fetch_front_articles()
    email_body,      \* main: email_body = format_email_body(articles)
    sender_email,    \* send_email: os.getenv('EMAIL_USER')
    sender_password, \* send_email: os.getenv('EMAIL_PASSWORD')
    success,         \* main: success = send_email(email_body)
    sessionOpen,     \* the smtplib.SMTP socket is open
    tlsDone,         \* server.starttls() returned
    loginDone,       \* server.login() returned
    sent,            \* server.send_message(msg) returned
    httpGets,        \* number of requests.get calls
    smtpConnects,    \* number of smtplib.SMTP(...) connection attempts
    calls,           \* components invoked by main, in order
    log              \* console lines printed, as tags, in order

vars == <<pc, response, articles, email_body, sender_email, sender_password,
          success, sessionOpen, tlsDone, loginDone, sent, httpGets,
          smtpConnects, calls, log>>

---------------------------------------------------------------------------
(* Bounds of the model *)

MaxElems == 2

---------------------------------------------------------------------------
(* Values *)

Absent == [k |-> "absent"]
Null == [k |-> "null"]
IntV(n) == [k |-> "int", v |-> n]
StrV(s) == [k |-> "str", v |-> s]
NoneV == [k |-> "None"]
ListV(s) == [k |-> "list", items |-> s]
NL == "\n"

\* dict.get(key, default): the value under the key, or the default
Get(value, default) == IF value = Absent THEN default ELSE value

\* the default {} of data.get('content', {}) and article.get('content', {})
EmptyDict == [k |-> "obj", elements |-> Absent, title |-> Absent, url |-> Absent]

\* the sentinel of x.get('sortID', 999)
MissingSortID == 999

---------------------------------------------------------------------------
(* fetch_front_articles *)

\* requests.get raised, or raise_for_status() raised on a non-2xx status
TransportFailed(r) == r.k \in {"ConnectionError", "Timeout", "HTTPError"}

\* response.json() raised
JsonFailed(r) == r.k = "ok" /\ r.data.k = "invalid"

\* data.get('content', {}) raises AttributeError unless data is a dict
ContentRaises(data) == data.k # "obj"

ContentOf(data) == Get(data.content, EmptyDict)

\* .get('elements', []) raises AttributeError unless content is a dict
ElementsRaises(data) == ContentOf(data).k # "obj"

\* as if the path were read by subscript, without the default []
ElementsRequired(data) == ContentOf(data).elements

ElementsOf(data) == Get(ContentOf(data).elements, [k |-> "arr", items |-> <<>>])

\* the comprehension raises TypeError on a null elements value and
\* AttributeError on an element that is no dict
FilterRaises(elements) ==
    \/ elements.k # "arr"
    \/ \E i \in 1..Len(elements.items) : elements.items[i].k # "obj"

\* as if the filter were: elem.get('type') == 'articles'
IsArticlesType(t) == t = StrV(<<"articles">>)

IsFrontType(t) == t \in {StrV(<<"articles">>), StrV(<<"tickers">>)}

FilterArticles(items) == SelectSeq(items, LAMBDA elem : IsFrontType(Get(elem.type, Null)))

SortKey(x) == Get(x.sortID, IntV(MissingSortID))

\* comparing keys raises TypeError when a key is not a number (a null);
\* every element of a list of two or more takes part in a comparison
SortRaises(arts) ==
    Len(arts) >= 2 /\ \E i \in 1..Len(arts) : SortKey(arts[i]).k # "int"

\* list.sort(key=...): ascending, stable
RECURSIVE InsertSorted(_, _)
InsertSorted(sorted, x) ==
    IF sorted = <<>> THEN <<x>>
    ELSE IF SortKey(sorted[Len(sorted)]).v <= SortKey(x).v
         THEN Append(sorted, x)
         ELSE Append(InsertSorted(SubSeq(sorted, 1, Len(sorted) - 1), x),
                     sorted[Len(sorted)])

RECURSIVE SortBySortID(_)
SortBySortID(arts) ==
    IF Len(arts) <= 1 THEN arts
    ELSE InsertSorted(SortBySortID(SubSeq(arts, 1, Len(arts) - 1)), arts[Len(arts)])

\* the value fetch_front_articles returns for a response
FetchResult(r) ==
    IF TransportFailed(r) \/ JsonFailed(r) THEN NoneV
    ELSE IF ContentRaises(r.data) THEN NoneV
    ELSE IF ElementsRaises(r.data) THEN NoneV
    ELSE IF FilterRaises(ElementsOf(r.data)) THEN NoneV
    ELSE IF SortRaises(FilterArticles(ElementsOf(r.data).items)) THEN NoneV
    ELSE ListV(SortBySortID(FilterArticles(ElementsOf(r.data).items)))

\* the line fetch_front_articles prints before it returns
FetchLog(r) == IF FetchResult(r) = NoneV THEN "fetch_error" ELSE "fetch_found"

---------------------------------------------------------------------------
(* format_email_body *)

\* {value} in an f-string: str(value)
Render(value) ==
    IF value.k = "str" THEN value.v
    ELSE IF value.k = "int" THEN <<ToString(value.v)>>
    ELSE <<"None">>

ArticleContent(article) == Get(article.content, EmptyDict)

\* article.get('content', {}).get(...) raises AttributeError unless the
\* content is a dict; nothing in format_email_body catches it
FormatRaises(arts) ==
    \E i \in 1..Len(arts) : ArticleContent(arts[i]).k # "obj"

TitleOf(article) == Get(ArticleContent(article).title, StrV(<<"Kein Titel">>))

UrlPathOf(article) == Get(ArticleContent(article).url, StrV(<<>>))

Separator == "============================================================"

\* swiss_time.strftime("%d.%m.%Y, %H:%M Uhr"): the clock's reading, one token
Now == "dd.mm.yyyy, HH:MM Uhr"

ReportHeader == <<"Tagesanzeiger Front - ", Now, NL, Separator, NL, NL>>

\* the three lines the loop body adds for one article
ReportEntry(index, article) ==
    <<"Position ", ToString(index), NL>>
    \o <<"Titel: ">> \o Render(TitleOf(article)) \o <<NL>>
    \o <<"URL: ", "https://www.tagesanzeiger.ch">> \o Render(UrlPathOf(article))
    \o <<NL, NL>>

RECURSIVE ReportEntries(_, _)
ReportEntries(arts, n) ==
    IF n = 0 THEN <<>>
    ELSE ReportEntries(arts, n - 1) \o ReportEntry(n, arts[n])

ReportFooter(arts) ==
    <<Separator, NL, "Insgesamt ", ToString(Len(arts)), " Artikel auf der Front">>

FormatBody(arts) ==
    StrV(ReportHeader \o ReportEntries(arts, Len(arts)) \o ReportFooter(arts))

---------------------------------------------------------------------------
(* send_email and main *)

\* os.getenv of a variable that is not set
NoneEnv == "<None>"

\* before send_email has read the environment
Unread == "<unread>"

EnvValues == {NoneEnv, "", "front@gmail.com"}

\* as if the validation were: if not sender_email and not sender_password
BothCredentialsMissing(user, password) ==
    user \in {NoneEnv, ""} /\ password \in {NoneEnv, ""}

\* if not sender_email or not sender_password
CredentialsMissing(user, password) ==
    user \in {NoneEnv, ""} \/ password \in {NoneEnv, ""}

\* as if main tested: if articles is None
TruthyNotNone(arts) == arts # NoneV

\* if not articles: None and the empty list are both falsy
Truthy(arts) == arts # NoneV /\ arts.items # <<>>

\* as if the connection were opened without the with statement
SessionLeftOpen == sessionOpen

\* leaving the with block closes the socket (SMTP.__exit__ ends in close())
SessionAfterWith == FALSE

\* as if the authentication handler fell through to return True
AuthFailureIgnored == TRUE

\* except smtplib.SMTPAuthenticationError: ... return False
AuthFailureResult == FALSE

\* except Exception as e: ... return False
OtherFailureResult == FALSE

\* as if main printed the success line whatever send_email returned
AlwaysSuccess(ok) == "success"

\* if success: ... else: ...
FinalOutcome(ok) == IF ok THEN "success" ELSE "failure"

---------------------------------------------------------------------------
(* The feed responses a run may meet *)

Ok(data) == [k |-> "ok", data |-> data]
Feed(content) == [k |-> "obj", content |-> content]
FeedContent(elements) ==
    [k |-> "obj", elements |-> elements, title |-> Absent, url |-> Absent]
Entry(title, url) ==
    [k |-> "obj", elements |-> Absent, title |-> title, url |-> url]
Elem(type, sortID, content) ==
    [k |-> "obj", id |-> 0, type |-> type, sortID |-> sortID, content |-> content]

PlainEntry == Entry(StrV(<<"A">>), StrV(<<"/a">>))

Types == {Absent, StrV(<<"articles">>), StrV(<<"tickers">>), StrV(<<"other">>)}

\* elements of every type, with a content that is absent, null or a dict,
\* and an element that is no dict
ShapeElems ==
    {Elem(t, Absent, c) : t \in Types, c \in {Absent, Null, PlainEntry}}
        \cup {StrV(<<"x">>)}

\* elements with and without a sortID, below, at and above the sentinel
SortElems ==
    {Elem(t, s, PlainEntry) :
        t \in {StrV(<<"articles">>), StrV(<<"other">>)},
        s \in {Absent, Null, IntV(1), IntV(2), IntV(999), IntV(1000)}}

Titles ==
    {Absent, Null, StrV(<<"A">>), StrV(<<"A", NL, "B">>),
     StrV(<<"A", NL, "Position ", "7">>)}

UrlPaths == {Absent, StrV(<<>>), StrV(<<"/a">>)}

\* articles whose title and url vary
TextElems ==
    {Elem(StrV(<<"articles">>), Absent, Entry(t, u)) : t \in Titles, u \in UrlPaths}

SeqsUpTo(S, n) == UNION {[1..m -> S] : m \in 0..n}

\* each element is an object of its own: id is its place in the payload
Tagged(items) ==
    [i \in 1..Len(items) |->
        IF items[i].k = "obj" THEN [items[i] EXCEPT !.id = i] ELSE items[i]]

Payloads ==
    SeqsUpTo(ShapeElems, MaxElems) \cup SeqsUpTo(SortElems, MaxElems)
        \cup SeqsUpTo(TextElems, MaxElems)

Responses ==
    {[k |-> "ConnectionError"], [k |-> "Timeout"], [k |-> "HTTPError"],
     Ok([k |-> "invalid"]), Ok([k |-> "arr", items |-> <<>>]),
     Ok(Feed(Absent)), Ok(Feed(Null)), Ok(Feed(StrV(<<"x">>))),
     Ok(Feed(FeedContent(Absent))), Ok(Feed(FeedContent(Null)))}
        \cup {Ok(Feed(FeedContent([k |-> "arr", items |-> Tagged(p)]))) : p \in Payloads}

---------------------------------------------------------------------------
(* The run *)

Init ==
    /\ pc = "fetch"
    /\ response \in Responses
    /\ articles = NoneV
    /\ email_body = NoneV
    /\ sender_email = Unread
    /\ sender_password = Unread
    /\ success = FALSE
    /\ sessionOpen = FALSE
    /\ tlsDone = FALSE
    /\ loginDone = FALSE
    /\ sent = FALSE
    /\ httpGets = 0
    /\ smtpConnects = 0
    /\ calls = <<>>
    /\ log = <<>>

smtpVars == <<sessionOpen, tlsDone, loginDone, sent, smtpConnects>>
envVars == <<sender_email, sender_password>>

\* main: articles = fetch_front_articles()
FetchFrontArticles ==
    /\ pc = "fetch"
    /\ httpGets' = httpGets + 1
    /\ articles' = FetchResult(response)
    /\ calls' = Append(calls, "fetch")
    /\ log' = Append(log, FetchLog(response))
    /\ pc' = "check"
    /\ UNCHANGED <<response, email_body, success, envVars, smtpVars>>

\* main: if not articles: print(Abbruch); return
MainAbort ==
    /\ pc = "check"
    /\ ~Truthy(articles)
    /\ log' = Append(log, "abort")
    /\ pc' = "done"
    /\ UNCHANGED <<response, articles, email_body, success, envVars, smtpVars,
                   httpGets, calls>>

\* main: email_body = format_email_body(articles), and the preview
FormatEmailBody ==
    /\ pc = "check"
    /\ Truthy(articles)
    /\ ~FormatRaises(articles.items)
    /\ email_body' = FormatBody(articles.items)
    /\ calls' = Append(calls, "format")
    /\ log' = Append(log, "preview")
    /\ pc' = "send"
    /\ UNCHANGED <<response, articles, success, envVars, smtpVars, httpGets>>

\* format_email_body raises; neither it nor main catches: main ends with
\* the traceback, none of its outcomes logged
FormatEmailBodyRaises ==
    /\ pc = "check"
    /\ Truthy(articles)
    /\ FormatRaises(articles.items)
    /\ calls' = Append(calls, "format")
    /\ pc' = "raised"
    /\ UNCHANGED <<response, articles, email_body, success, envVars, smtpVars,
                   httpGets, log>>

\* send_email returns a failure from inside or on leaving the with block
SendFails(tag, result) ==
    /\ sessionOpen' = SessionAfterWith
    /\ success' = result
    /\ log' = Append(log, tag)
    /\ pc' = "report"

\* main: success = send_email(email_body), up to the validation
SendEmail ==
    /\ pc = "send"
    /\ calls' = Append(calls, "send")
    /\ \E user \in EnvValues, password \in EnvValues :
        /\ sender_email' = user
        /\ sender_password' = password
        /\ \/ /\ CredentialsMissing(user, password)
              /\ log' = Append(log, "credentials_missing")
              /\ success' = FALSE
              /\ pc' = "report"
           \/ /\ ~CredentialsMissing(user, password)
              /\ log' = Append(log, "sending")
              /\ success' = success
              /\ pc' = "connect"
    /\ UNCHANGED <<response, articles, email_body, smtpVars, httpGets>>

\* with smtplib.SMTP('smtp.gmail.com', 587) as server: the connection
SmtpConnect ==
    /\ pc = "connect"
    /\ smtpConnects' = smtpConnects + 1
    /\ \/ /\ sessionOpen' = TRUE
          /\ pc' = "starttls"
          /\ UNCHANGED <<success, log>>
       \/ /\ sessionOpen' = FALSE
          /\ success' = OtherFailureResult
          /\ log' = Append(log, "send_error")
          /\ pc' = "report"
    /\ UNCHANGED <<response, articles, email_body, envVars, tlsDone, loginDone,
                   sent, httpGets, calls>>

\* server.starttls()
SmtpStartTls ==
    /\ pc = "starttls"
    /\ \/ /\ tlsDone' = TRUE
          /\ pc' = "login"
          /\ UNCHANGED <<sessionOpen, success, log>>
       \/ /\ SendFails("send_error", OtherFailureResult)
          /\ UNCHANGED tlsDone
    /\ UNCHANGED <<response, articles, email_body, envVars, loginDone, sent,
                   smtpConnects, httpGets, calls>>

\* server.login(sender_email, sender_password)
SmtpLogin ==
    /\ pc = "login"
    /\ \/ /\ loginDone' = TRUE
          /\ pc' = "send_message"
          /\ UNCHANGED <<sessionOpen, success, log>>
       \/ /\ SendFails("auth_error", AuthFailureResult)
          /\ UNCHANGED loginDone
       \/ /\ SendFails("send_error", OtherFailureResult)
          /\ UNCHANGED loginDone
    /\ UNCHANGED <<response, articles, email_body, envVars, tlsDone, sent,
                   smtpConnects, httpGets, calls>>

\* server.send_message(msg)
SmtpSendMessage ==
    /\ pc = "send_message"
    /\ \/ /\ sent' = TRUE
          /\ pc' = "exit"
          /\ UNCHANGED <<sessionOpen, success, log>>
       \/ /\ SendFails("send_error", OtherFailureResult)
          /\ UNCHANGED sent
    /\ UNCHANGED <<response, articles, email_body, envVars, tlsDone, loginDone,
                   smtpConnects, httpGets, calls>>

\* the end of the with block (QUIT, then close()), print(erfolgreich), return True;
\* a QUIT the server answers with an error raises out of the block
SmtpExit ==
    /\ pc = "exit"
    /\ \/ /\ sessionOpen' = SessionAfterWith
          /\ success' = TRUE
          /\ log' = Append(log, "mail_sent")
          /\ pc' = "report"
       \/ SendFails("send_error", OtherFailureResult)
    /\ UNCHANGED <<response, articles, email_body, envVars, tlsDone, loginDone,
                   sent, smtpConnects, httpGets, calls>>

\* main: if success: print(erfolgreich) else: print(mit Fehlern beendet)
MainReport ==
    /\ pc = "report"
    /\ log' = Append(log, FinalOutcome(success))
    /\ pc' = "done"
    /\ UNCHANGED <<response, articles, email_body, success, envVars, smtpVars,
                   httpGets, calls>>

Next ==
    \/ FetchFrontArticles
    \/ MainAbort
    \/ FormatEmailBody
    \/ FormatEmailBodyRaises
    \/ SendEmail
    \/ SmtpConnect
    \/ SmtpStartTls
    \/ SmtpLogin
    \/ SmtpSendMessage
    \/ SmtpExit
    \/ MainReport

Spec == Init /\ [][Next]_vars

---------------------------------------------------------------------------
(* What the properties below speak of *)

\* the elements array of the feed, when the payload has one
FeedItems ==
    IF /\ response.k = "ok"
       /\ response.data.k = "obj"
       /\ response.data.content.k = "obj"
       /\ response.data.content.elements.k = "arr"
    THEN response.data.content.elements.items
    ELSE <<>>

\* the feed elements that are dicts of type "articles" or "tickers"
FrontIds ==
    {j \in 1..Len(FeedItems) :
        /\ FeedItems[j].k = "obj"
        /\ FeedItems[j].type.k = "str"
        /\ FeedItems[j].type.v \in {<<"articles">>, <<"tickers">>}}

Returned == articles.k = "list"

Last(s) == s[Len(s)]

Range(s) == {s[i] : i \in 1..Len(s)}

Count(s, x) == Cardinality({i \in 1..Len(s) : s[i] = x})

\* a text cut at its line breaks
Lines(text) ==
    LET breaks == <<0>> \o SelectSeq([i \in 1..Len(text) |-> i], LAMBDA i : text[i] = NL)
                       \o <<Len(text) + 1>>
    IN  [n \in 1..(Len(breaks) - 1) |-> SubSeq(text, breaks[n] + 1, breaks[n + 1] - 1)]

Numerals == {ToString(n) : n \in 0..9}

IsPositionLine(line) ==
    Len(line) = 2 /\ line[1] = "Position " /\ line[2] \in Numerals

InWithBlock == pc \in {"starttls", "login", "send_message", "exit"}

SendReturned == pc \in {"report", "done"}

---------------------------------------------------------------------------
(* C1: when fetch_front_articles returned None or an empty list, main    *)
(* has called nothing but the fetch, no SMTP connection was opened, no   *)
(* message was sent, and main ends having logged the abort.              *)
C1_NoEmailWithoutArticles ==
    (pc # "fetch" /\ (articles = NoneV \/ articles.items = <<>>)) =>
        /\ pc \in {"check", "done"}
        /\ calls = <<"fetch">>
        /\ email_body = NoneV
        /\ smtpConnects = 0
        /\ ~sessionOpen /\ ~sent
        /\ sender_email = Unread
        /\ pc = "check" =>
            ENABLED MainAbort /\ ~ENABLED FormatEmailBody /\ ~ENABLED SendEmail
        /\ pc = "done" => Last(log) = "abort"

\* a feed with elements, none of them kept: the run has ended in the abort
C1_Witness ==
    /\ pc = "done"
    /\ FeedItems # <<>>
    /\ articles = ListV(<<>>)
    /\ Last(log) = "abort"

(* C2: when fetch_front_articles returns a list, the list holds each     *)
(* feed element of type "articles" or "tickers" exactly once and nothing *)
(* else (an element without a type included), and the report has one     *)
(* entry for each of them and no other.                                  *)
C2_OnlyFrontTypes ==
    /\ Returned =>
        /\ \A i \in 1..Len(articles.items) : articles.items[i].id \in FrontIds
        /\ \A j \in 1..Len(FeedItems) :
            Cardinality({i \in 1..Len(articles.items) :
                            /\ articles.items[i].id = j
                            /\ articles.items[i] = FeedItems[j]})
                = IF j \in FrontIds THEN 1 ELSE 0
    /\ email_body # NoneV => Count(email_body.v, "Titel: ") = Cardinality(FrontIds)

\* one element kept and one dropped, and the report written
C2_Witness ==
    /\ email_body # NoneV
    /\ Len(FeedItems) = 2
    /\ Len(articles.items) = 1
    /\ FeedItems[1].type = Absent
    /\ FeedItems[2].type = StrV(<<"tickers">>)

(* C3: in a returned list the articles that have a sortID are in         *)
(* non-decreasing sortID order and no article without a sortID comes     *)
(* before an article that has one, whatever the integer values.          *)
C3_MissingSortIdLast ==
    Returned =>
        \A i, j \in 1..Len(articles.items) :
            i < j =>
                LET a == articles.items[i].sortID
                    b == articles.items[j].sortID
                IN  /\ (a.k = "int" /\ b.k = "int") => a.v <= b.v
                    /\ ~(a = Absent /\ b.k = "int")

(* C4: when EMAIL_USER or EMAIL_PASSWORD is absent or empty, send_email  *)
(* returns False at once: no connection, no STARTTLS, no login, no       *)
(* submission, and main logs the failure.                                *)
C4_NoNetworkWithoutCredentials ==
    (sender_email \in {NoneEnv, ""} \/ sender_password \in {NoneEnv, ""}) =>
        /\ SendReturned
        /\ success = FALSE
        /\ smtpConnects = 0
        /\ ~sessionOpen /\ ~tlsDone /\ ~loginDone /\ ~sent
        /\ "sending" \notin Range(log)
        /\ pc = "done" => Last(log) = "failure"

\* the user is set, the password is not, and the run has ended
C4_Witness ==
    /\ pc = "done"
    /\ sender_email = "front@gmail.com"
    /\ sender_password = NoneEnv
    /\ Last(log) = "failure"

(* C5: no exception leaves a component: main never ends on an exception *)
(* raised by fetch_front_articles, format_email_body or send_email, and *)
(* a finished run has logged abort, success or failure.                 *)
C5_NoExceptionEscapes ==
    /\ pc # "raised"
    /\ pc = "done" => Last(log) \in {"abort", "success", "failure"}

(* C6: the lines "Position N" of the report are as many as the footer   *)
(* says and as the list is long, and their N are 1..length in order,    *)
(* whatever the titles and URL paths hold.                              *)
C6_PositionLinesMatchCount ==
    email_body # NoneV =>
        LET lines == Lines(email_body.v)
            positions == SelectSeq(lines, IsPositionLine)
            n == Len(articles.items)
        IN  /\ Len(positions) = n
            /\ Last(lines) = <<"Insgesamt ", ToString(n), " Artikel auf der Front">>
            /\ \A i \in 1..Len(positions) : positions[i] = <<"Position ", ToString(i)>>

(* C7: the SMTP session is open only inside the with block: once        *)
(* send_email has returned, by whichever path, the session is closed.   *)
C7_SessionClosedOnReturn ==
    /\ sessionOpen => InWithBlock
    /\ SendReturned => ~sessionOpen

\* login was refused after STARTTLS, and send_email has returned
C7_Witness ==
    /\ pc = "report"
    /\ smtpConnects = 1
    /\ tlsDone /\ ~loginDone
    /\ Last(log) = "auth_error"
    /\ ~sessionOpen

(* C8: at most one HTTP GET and one SMTP session in a run; after an     *)
(* authentication failure and after any other SMTP failure send_email   *)
(* has returned False, main logs the failure, and nothing follows.      *)
C8_NoRetry ==
    /\ httpGets <= 1
    /\ smtpConnects <= 1
    /\ Count(calls, "send") <= 1
    /\ (SendReturned /\ Range(log) \cap {"auth_error", "send_error"} # {}) =>
        /\ success = FALSE
        /\ pc = "done" => Last(log) = "failure"
    /\ pc = "done" => ~ENABLED Next

\* the login was refused and the run has ended
C8_Witness ==
    /\ pc = "done"
    /\ "auth_error" \in Range(log)
    /\ httpGets = 1 /\ smtpConnects = 1

C10_OrderAndOutcome ==
    /\ Len(calls) <= 3
    /\ \A i \in 1..Len(calls) : calls[i] = <<"fetch", "format", "send">>[i]
    /\ httpGets = (IF pc = "fetch" THEN 0 ELSE 1)
    /\ Len(calls) >= 2 => Returned /\ articles.items # <<>>
    /\ Len(calls) = 3 => email_body # NoneV
    /\ smtpConnects > 0 => Len(calls) = 3
    /\ "success" \in Range(log) =>
        /\ pc = "done" /\ success
        /\ tlsDone /\ loginDone /\ sent
        /\ Range(log) \cap {"auth_error", "send_error", "credentials_missing"} = {}
    /\ (pc = "done" /\ Len(calls) = 3 /\ ~success) => Last(log) = "failure"

\* the mail went out and main logged the success
C10_Witness ==
    /\ pc = "done"
    /\ Last(log) = "success"
    /\ calls = <<"fetch", "format", "send">>

=============================================================================
